---- MODULE Spec2Model ----
(***************************************************************************)
(* Move-generation kernel of abrfr/chess-engine, src/game_piece_moves.cpp. *)
(*                                                                         *)
(* A bitboard is modelled as the set of its set bits (a subset of 0..63):  *)
(* bit i of the 64-bit mask stands for square i, | is \cup, & is \cap, ~   *)
(* is the complement in 0..63, and a shift by 8 moves every bit by 8 and   *)
(* drops the bits that leave the 64-bit word.                              *)
(*                                                                         *)
(* A loop "for (square s = 0; s < 64; s++) if (!test_bit(b, s)) continue"  *)
(* is modelled as a fold over the set bits of b in ascending order: the    *)
(* iterations it skips change nothing.                                     *)
(***************************************************************************)
EXTENDS Integers, Sequences, FiniteSets, TLC

\* ------------------------------------------------------------------ bounds
\* most pieces on the board snapshot handed to a generator
MaxOcc == 1
\* most set bits of a source mask in the specification of the unions
MaxSrc == 2

\* --------------------------------------------------------------- constants
Squares == 0..63

\* movement.h: the four unit steps, as signed deltas on a square index
up == -8
down == 8
left == -1
right == 1

\* game.h: the value of en_passant when there is no en-passant target
no_square == 64

white_c == "white"
black_c == "black"
Colors == {white_c, black_c}

TableNames == {"pawn_attacks", "knight_moves", "king_moves"}

\* ------------------------------------------------------------------- state
VARIABLES
  white,          \* board.white : bitboard
  black,          \* board.black : bitboard
  en_passant,     \* the en-passant target square, or no_square
  pawn_attacks,   \* static table of get_pawn_attacks (zero until constructed)
  knight_moves,   \* static table of get_knight_moves
  king_moves,     \* static table of get_king_moves
  built,          \* the static tables whose initialisation guard is set
  builds,         \* how often each static table was constructed so far
  gen,            \* the generator of the last call, "none" before any call
  b,              \* its source mask
  c,              \* its color argument (white_c where the generator takes none)
  result,         \* the bitboard it returned
  memo,           \* an earlier call and its result, kept for comparison
  pc,             \* position of the stepwise walk of a sliding generator
  ws,             \* the walk's source squares still to visit
  wk,             \* the sliding kind whose directions the walk uses
  wd,             \* the walk's direction number (1..4)
  wi,             \* the walk's candidate row i
  wj,             \* the walk's candidate column j
  steps,          \* squares marked so far on the current ray
  marks           \* squares marked so far in the call

board == <<white, black, en_passant>>
tables == <<pawn_attacks, knight_moves, king_moves, built, builds>>
call == <<gen, b, c, result>>
walk == <<pc, ws, wk, wd, wi, wj, steps, marks>>
vars == <<white, black, en_passant, pawn_attacks, knight_moves, king_moves,
          built, builds, gen, b, c, result, memo, pc, ws, wk, wd, wi, wj,
          steps, marks>>

\* -------------------------------------------------------------- primitives
get_row(s) == s \div 8
get_col(s) == s % 8
test_bit(bb, s) == s \in bb
set_bit(bb, s) == bb \cup {s}
get_pawn_direction(cc) == IF cc = white_c THEN up ELSE down

\* the next square the scan "for s = 0..63, skip unset bits" stops at
lowest_bit(bb) == CHOOSE s \in bb : \A x \in bb : s <= x

is_valid_dimension(i) == 0 <= i /\ i < 8

\* ------------------------------------------------------------ offset tables
get_offset_components(off) ==
  LET x == 36
      y == x + off
  IN  <<get_row(y) - get_row(x), get_col(y) - get_col(x)>>

\* variant: the offset is added to the square index, and only the index is
\* tested
RECURSIVE jump_entry_raw(_, _, _, _, _)
jump_entry_raw(offsets, k, r, cc, moves) ==
  IF k > Len(offsets) THEN moves
  ELSE LET sq == 8 * r + cc + offsets[k]
       IN  IF sq < 0 \/ sq >= 64
           THEN jump_entry_raw(offsets, k + 1, r, cc, moves)
           ELSE jump_entry_raw(offsets, k + 1, r, cc, set_bit(moves, sq))

\* for (auto x : offsets), from offset number k on, for the square (r, cc)
RECURSIVE jump_entry(_, _, _, _, _)
jump_entry(offsets, k, r, cc, moves) ==
  IF k > Len(offsets) THEN moves
  ELSE LET d == get_offset_components(offsets[k])
           i == r + d[1]
           j == cc + d[2]
       IN  IF ~is_valid_dimension(i) \/ ~is_valid_dimension(j)
           THEN jump_entry(offsets, k + 1, r, cc, moves)
           ELSE jump_entry(offsets, k + 1, r, cc, set_bit(moves, 8 * i + j))

make_jump_table(offsets) ==
  [s \in Squares |-> jump_entry(offsets, 1, get_row(s), get_col(s), {})]

\* std::array<bitboard, 64> of a static before its initialiser has run
zero_table == [s \in Squares |-> {}]

pawn_attack_offsets == <<left, right>>
knight_offsets ==
  <<2 * up + left, 2 * up + right, 2 * down + left, 2 * down + right,
    up + 2 * left, down + 2 * left, up + 2 * right, down + 2 * right>>
king_offsets ==
  <<up, down, left, right, up + left, up + right, down + left, down + right>>

\* what the initialiser of each static computes
pawn_attacks_init == make_jump_table(pawn_attack_offsets)
knight_moves_init == make_jump_table(knight_offsets)
king_moves_init == make_jump_table(king_offsets)

\* const static auto t = make_jump_table(...): constructed by the first call
\* that reaches the declaration, left alone by every later one
static_table(name, stored, init) == IF name \in built THEN stored ELSE init
static_built(name) == built \cup {name}
\* variant: the table is not static, every call constructs it
static_builds_every_call(name) == [builds EXCEPT ![name] = @ + 1]

static_builds(name) ==
  IF name \in built THEN builds ELSE [builds EXCEPT ![name] = @ + 1]

\* for (s...) if (test_bit(b, s)) moves |= table[s];
RECURSIVE lookup_from(_, _, _)
lookup_from(table, bb, moves) ==
  IF bb = {} THEN moves
  ELSE LET s == lowest_bit(bb)
       IN  lookup_from(table, bb \ {s}, moves \cup table[s])

\* ------------------------------------------------------------------- pawns
\* the body of the loop of get_pawn_moves for the pawn on s
\* variant: the double push does not depend on the single push
pawn_push_unguarded(s, cc, moves) ==
  LET pawn_dir == get_pawn_direction(cc)
      start_row == IF cc = white_c THEN 6 ELSE 1
      vacant == Squares \ (black \cup white)
      t == s + pawn_dir
      pushed == IF test_bit(vacant, t) THEN set_bit(moves, t) ELSE moves
  IN  IF get_row(s) = start_row /\ test_bit(vacant, t + pawn_dir)
      THEN set_bit(pushed, t + pawn_dir)
      ELSE pushed

pawn_push(s, cc, moves) ==
  LET pawn_dir == get_pawn_direction(cc)
      start_row == IF cc = white_c THEN 6 ELSE 1
      vacant == Squares \ (black \cup white)
      t == s + pawn_dir
      pushed == set_bit(moves, t)
  IN  IF test_bit(vacant, t)
      THEN IF get_row(s) = start_row
           THEN IF test_bit(vacant, t + pawn_dir)
                THEN set_bit(pushed, t + pawn_dir)
                ELSE pushed
           ELSE pushed
      ELSE moves

\* variant: only a piece of the other color is captured
add_capture_enemy_only(s, cc, dir, moves) ==
  LET pawn_dir == get_pawn_direction(cc)
      enemy == IF cc = white_c THEN black ELSE white
      edge == IF dir = left THEN 0 ELSE 7
      sq == s + pawn_dir + dir
  IN  IF get_col(s) = edge THEN moves
      ELSE IF test_bit(enemy, sq) \/ sq = en_passant THEN set_bit(moves, sq)
      ELSE moves

\* variant: no test of the edge file
add_capture_unclipped(s, cc, dir, moves) ==
  LET pawn_dir == get_pawn_direction(cc)
      vacant == Squares \ (black \cup white)
      sq == s + pawn_dir + dir
  IN  IF ~test_bit(vacant, sq) \/ sq = en_passant THEN set_bit(moves, sq)
      ELSE moves

add_capture(s, cc, dir, moves) ==
  LET pawn_dir == get_pawn_direction(cc)
      vacant == Squares \ (black \cup white)
      edge == IF dir = left THEN 0 ELSE 7
      sq == s + pawn_dir + dir
  IN  IF get_col(s) = edge THEN moves
      ELSE IF ~test_bit(vacant, sq) \/ sq = en_passant THEN set_bit(moves, sq)
      ELSE moves

\* variant: the loop ends after the first pawn
RECURSIVE pawn_from_first_only(_, _, _)
pawn_from_first_only(bb, cc, moves) ==
  IF bb = {} THEN moves
  ELSE LET s == lowest_bit(bb)
       IN  add_capture(s, cc, right,
             add_capture(s, cc, left, pawn_push(s, cc, moves)))

RECURSIVE pawn_from(_, _, _)
pawn_from(bb, cc, moves) ==
  IF bb = {} THEN moves
  ELSE LET s == lowest_bit(bb)
       IN  pawn_from(bb \ {s}, cc,
                     add_capture(s, cc, right,
                       add_capture(s, cc, left, pawn_push(s, cc, moves))))

get_pawn_moves(bb, cc) == pawn_from(bb, cc, {})

\* b <<= 8 and b >>= 8 on a 64-bit mask
shift_left_8(bb) == {s + 8 : s \in bb} \cap Squares
shift_right_8(bb) == {s - 8 : s \in bb} \cap Squares

get_pawn_attacks(bb, cc) ==
  LET table == static_table("pawn_attacks", pawn_attacks, pawn_attacks_init)
      shifted == IF cc = white_c THEN shift_left_8(bb) ELSE shift_right_8(bb)
  IN  lookup_from(table, shifted, {})

\* ------------------------------------------------------ short range pieces
get_knight_moves(bb) ==
  lookup_from(static_table("knight_moves", knight_moves, knight_moves_init),
              bb, {})

get_king_moves(bb) ==
  lookup_from(static_table("king_moves", king_moves, king_moves_init), bb, {})

\* ------------------------------------------------------- sliding generators
bishop_dirs == << <<1, 1>>, <<1, -1>>, <<-1, 1>>, <<-1, -1>> >>
rook_dirs == << <<1, 0>>, <<-1, 0>>, <<0, 1>>, <<0, -1>> >>

\* variant: the walk stops in front of the first occupied square
RECURSIVE ray_walk_exclusive(_, _, _, _, _, _)
ray_walk_exclusive(i, j, dr, dc, occupied, moves) ==
  IF is_valid_dimension(i) /\ is_valid_dimension(j)
  THEN LET sq == 8 * i + j
       IN  IF test_bit(occupied, sq) THEN moves
           ELSE ray_walk_exclusive(i + dr, j + dc, dr, dc, occupied,
                                   set_bit(moves, sq))
  ELSE moves

\* the while loop of one direction: mark, stop at the first occupied square
RECURSIVE ray_walk(_, _, _, _, _, _)
ray_walk(i, j, dr, dc, occupied, moves) ==
  IF is_valid_dimension(i) /\ is_valid_dimension(j)
  THEN LET sq == 8 * i + j
           marked == set_bit(moves, sq)
       IN  IF test_bit(occupied, sq) THEN marked
           ELSE ray_walk(i + dr, j + dc, dr, dc, occupied, marked)
  ELSE moves

\* for (auto [dr, dc] : dirs), from direction number k on
RECURSIVE walk_dirs(_, _, _, _, _, _)
walk_dirs(dirs, k, r, cc, occupied, moves) ==
  IF k > Len(dirs) THEN moves
  ELSE walk_dirs(dirs, k + 1, r, cc, occupied,
                 ray_walk(r + dirs[k][1], cc + dirs[k][2],
                          dirs[k][1], dirs[k][2], occupied, moves))

RECURSIVE slide_from(_, _, _, _)
slide_from(dirs, bb, occupied, moves) ==
  IF bb = {} THEN moves
  ELSE LET s == lowest_bit(bb)
       IN  slide_from(dirs, bb \ {s}, occupied,
                      walk_dirs(dirs, 1, get_row(s), get_col(s), occupied,
                                moves))

get_bishop_moves(bb) == slide_from(bishop_dirs, bb, black \cup white, {})

get_rook_moves(bb) == slide_from(rook_dirs, bb, black \cup white, {})

\* variant: the queen moves like a rook
get_queen_moves_rook_only(bb) == get_rook_moves(bb)

get_queen_moves(bb) == get_bishop_moves(bb) \cup get_rook_moves(bb)

\* ------------------------------------------------------------------ inputs
\* the bitboards with at most k bits set
RECURSIVE SetsUpTo(_)
SetsUpTo(k) ==
  IF k = 0 THEN {{}}
  ELSE LET P == SetsUpTo(k - 1) IN P \cup {p \cup {x} : p \in P, x \in Squares}

\* a source mask of one piece, or of none
SingleMasks == {{}} \cup {{s} : s \in Squares}

no_call ==
  [gen |-> "none", b |-> {}, c |-> white_c, result |-> {}, first |-> FALSE,
   again |-> FALSE]

\* the state of the process before any generator was called
Fresh ==
  /\ pawn_attacks = zero_table /\ knight_moves = zero_table
  /\ king_moves = zero_table /\ built = {}
  /\ builds = [n \in TableNames |-> 0]
  /\ gen = "none" /\ b = {} /\ c = white_c /\ result = {}
  /\ memo = no_call
  /\ pc = "idle" /\ ws = {} /\ wk = "bishop" /\ wd = 1 /\ wi = 0 /\ wj = 0
  /\ steps = 0 /\ marks = 0

\* a snapshot with at most k pieces, all of one color, and no target
BoardUpTo(k) ==
  /\ \E occ \in SetsUpTo(k) : \E w \in {occ, {}} :
       white = w /\ black = occ \ w
  /\ en_passant = no_square

\* ------------------------------------------------------------------- calls
Returns(g, bb, cc, res) ==
  gen' = g /\ b' = bb /\ c' = cc /\ result' = res

CallPawnMoves(bb, cc) ==
  /\ Returns("pawn_moves", bb, cc, get_pawn_moves(bb, cc))
  /\ UNCHANGED <<board, tables, walk>>

CallPawnAttacks(bb, cc) ==
  /\ Returns("pawn_attacks", bb, cc, get_pawn_attacks(bb, cc))
  /\ pawn_attacks' =
       static_table("pawn_attacks", pawn_attacks, pawn_attacks_init)
  /\ built' = static_built("pawn_attacks")
  /\ builds' = static_builds("pawn_attacks")
  /\ UNCHANGED <<board, knight_moves, king_moves, walk>>

CallKnight(bb) ==
  /\ Returns("knight", bb, white_c, get_knight_moves(bb))
  /\ knight_moves' =
       static_table("knight_moves", knight_moves, knight_moves_init)
  /\ built' = static_built("knight_moves")
  /\ builds' = static_builds("knight_moves")
  /\ UNCHANGED <<board, pawn_attacks, king_moves, walk>>

CallKing(bb) ==
  /\ Returns("king", bb, white_c, get_king_moves(bb))
  /\ king_moves' = static_table("king_moves", king_moves, king_moves_init)
  /\ built' = static_built("king_moves")
  /\ builds' = static_builds("king_moves")
  /\ UNCHANGED <<board, pawn_attacks, knight_moves, walk>>

CallBishop(bb) ==
  /\ Returns("bishop", bb, white_c, get_bishop_moves(bb))
  /\ UNCHANGED <<board, tables, walk>>

CallRook(bb) ==
  /\ Returns("rook", bb, white_c, get_rook_moves(bb))
  /\ UNCHANGED <<board, tables, walk>>

CallQueen(bb) ==
  /\ Returns("queen", bb, white_c, get_queen_moves(bb))
  /\ UNCHANGED <<board, tables, walk>>

\* ---------------------------------------------------- sliding specification
\* one call of a sliding generator for one piece, on every small snapshot
InitSlide == Fresh /\ BoardUpTo(MaxOcc)

SlideBishop == gen = "none" /\ UNCHANGED memo /\ \E bb \in SingleMasks : CallBishop(bb)
SlideRook == gen = "none" /\ UNCHANGED memo /\ \E bb \in SingleMasks : CallRook(bb)
SlideQueen == gen = "none" /\ UNCHANGED memo /\ \E bb \in SingleMasks : CallQueen(bb)

NextSlide == SlideBishop \/ SlideRook

SpecSlide == InitSlide /\ [][NextSlide]_vars

\* one call of the queen generator for one piece, on every small snapshot
NextQueen == SlideQueen

SpecQueen == InitSlide /\ [][NextQueen]_vars

\* ------------------------------------------------------ board geometry
Abs(x) == IF x < 0 THEN -x ELSE x
Sgn(x) == IF x < 0 THEN -1 ELSE IF x > 0 THEN 1 ELSE 0
DRow(s, d) == get_row(d) - get_row(s)
DCol(s, d) == get_col(d) - get_col(s)
Dist(s, d) == IF Abs(DRow(s, d)) > Abs(DCol(s, d)) THEN Abs(DRow(s, d))
              ELSE Abs(DCol(s, d))
OnDiagonal(s, d) == d # s /\ Abs(DRow(s, d)) = Abs(DCol(s, d))
OnRankOrFile(s, d) == d # s /\ (DRow(s, d) = 0 \/ DCol(s, d) = 0)
OnLine(g, s, d) == IF g = "bishop" THEN OnDiagonal(s, d) ELSE OnRankOrFile(s, d)
\* the squares strictly between s and d, which share a line
Between(s, d) ==
  {8 * (get_row(s) + m * Sgn(DRow(s, d))) + get_col(s) + m * Sgn(DCol(s, d)) :
     m \in 1..(Dist(s, d) - 1)}
\* the squares of the ray from s through d, s excluded
RayThrough(g, s, d) ==
  {x \in Squares : OnLine(g, s, x) /\ Sgn(DRow(s, x)) = Sgn(DRow(s, d))
                                  /\ Sgn(DCol(s, x)) = Sgn(DCol(s, d))}
Occupied == white \cup black

\* the geometry above, tabulated once
LineFrom ==
  [g \in {"bishop", "rook"} |->
     [s \in Squares |-> {d \in Squares : OnLine(g, s, d)}]]
BetweenOf == [s \in Squares |-> [d \in Squares |-> Between(s, d)]]
Clear(s, d) == BetweenOf[s][d] \cap Occupied = {}

\* C1: a square is in the result of bishop_moves / rook_moves iff it lies on
\* one of the piece's rays from a source square with no occupied square
\* strictly between; so a first blocker at distance k (either color) leaves
\* exactly k squares of its ray, and a rook on an empty board reaches 14.
C1_SlidingContract ==
  gen \in {"bishop", "rook"} =>
    /\ result = UNION {{d \in LineFrom[gen][s] : Clear(s, d)} : s \in b}
    /\ \A s \in b : \A k \in Occupied \cap LineFrom[gen][s] :
         Clear(s, k) =>
           /\ k \in result
           /\ Cardinality(result \cap RayThrough(gen, s, k)) = Dist(s, k)
    /\ (gen = "rook" /\ Occupied = {} /\ b # {}) => Cardinality(result) = 14

\* a rook or bishop call whose ray is cut short by a piece that has free
\* squares behind it
C1_Witness ==
  /\ gen \in {"bishop", "rook"}
  /\ \E s \in b : \E k \in Occupied :
       /\ OnLine(gen, s, k) /\ Dist(s, k) >= 2
       /\ Cardinality(RayThrough(gen, s, k)) > Dist(s, k)
       /\ k \in result

\* C7: queen_moves(b) is bishop_moves(b) | rook_moves(b) on the same board.
C7_QueenIsUnion ==
  gen = "queen" => result = get_bishop_moves(b) \cup get_rook_moves(b)

\* a queen call that has both diagonal and straight destinations, one cut
\* short by a piece
C7_Witness ==
  /\ gen = "queen" /\ b # {} /\ Occupied # {}
  /\ get_bishop_moves(b) \ get_rook_moves(b) # {}
  /\ get_rook_moves(b) \ get_bishop_moves(b) # {}
  /\ Occupied \cap result # {}

\* ------------------------------------------------------ pawn specification
\* the squares a pawn can stand on: never a back rank
PawnSquares == {s \in Squares : get_row(s) \in 1..6}

\* the en-passant targets that can matter to the pawn on s: none, and the
\* three squares s + forward + {left, 0, right} (the edge files included)
TargetsNear(s, cc) ==
  {no_square} \cup {s + get_pawn_direction(cc) + d : d \in {left, 0, right}}

\* one call of get_pawn_moves for one pawn; the arguments are drawn with the
\* snapshot
InitPawn ==
  /\ pawn_attacks = zero_table /\ knight_moves = zero_table
  /\ king_moves = zero_table /\ built = {}
  /\ builds = [n \in TableNames |-> 0]
  /\ gen = "none" /\ result = {} /\ memo = no_call
  /\ pc = "idle" /\ ws = {} /\ wk = "bishop" /\ wd = 1 /\ wi = 0 /\ wj = 0
  /\ steps = 0 /\ marks = 0
  /\ \E occ \in SetsUpTo(MaxOcc) : \E w \in {occ, {}} :
       white = w /\ black = occ \ w
  /\ \E s \in PawnSquares : \E cc \in Colors :
       /\ b = {s} /\ c = cc
       /\ en_passant \in TargetsNear(s, cc)

PawnMoves == gen = "none" /\ UNCHANGED memo /\ CallPawnMoves(b, c)

NextPawn == PawnMoves

SpecPawn == InitPawn /\ [][NextPawn]_vars

\* the source square of a single-piece call, and the pawn's direction
TheSource == CHOOSE s \in b : TRUE
Forward == get_pawn_direction(c)
StartRow == IF c = white_c THEN 6 ELSE 1
PawnCall == gen = "pawn_moves" /\ Cardinality(b) = 1

\* C2: for a single pawn on s, t = s + forward is set iff t is vacant, and
\* t2 = t + forward is set iff s is on the start row of its color and both
\* t and t2 are vacant.
C2_PawnPush ==
  PawnCall =>
    LET t == TheSource + Forward
        t2 == t + Forward
    IN  /\ t \in result <=> t \notin Occupied
        /\ t2 \in result <=>
             (get_row(TheSource) = StartRow /\ t \notin Occupied
                                          /\ t2 \notin Occupied)

\* a pawn on its start row whose first square is occupied and whose second
\* is vacant: it gets neither
C2_Witness ==
  /\ PawnCall /\ get_row(TheSource) = StartRow
  /\ TheSource + Forward \in Occupied
  /\ TheSource + 2 * Forward \notin Occupied
  /\ TheSource + Forward \notin result /\ TheSource + 2 * Forward \notin result

\* the diagonal sides on which the pawn is not on the edge file
OpenSides ==
  {d \in {left, right} : get_col(TheSource) # (IF d = left THEN 0 ELSE 7)}

\* C3: for a single pawn and each side on which it is not on the edge file,
\* sq = s + forward + side is set iff sq is occupied (by either color) or sq
\* is the en-passant target.
C3_PawnCapture ==
  PawnCall =>
    \A d \in OpenSides :
      LET sq == TheSource + Forward + d
      IN  sq \in result <=> (sq \in Occupied \/ sq = en_passant)

\* a vacant diagonal square that is set because it is the en-passant target
C3_Witness ==
  /\ PawnCall
  /\ \E d \in OpenSides :
       /\ TheSource + Forward + d = en_passant
       /\ en_passant \notin Occupied
       /\ en_passant \in result

\* C6: a pawn on file 0 never gets s + forward + left, a pawn on file 7
\* never gets s + forward + right, and every square of the result is at most
\* one file away from the pawn.
C6_PawnEdgeClipping ==
  PawnCall =>
    /\ get_col(TheSource) = 0 => TheSource + Forward + left \notin result
    /\ get_col(TheSource) = 7 => TheSource + Forward + right \notin result
    /\ \A d \in result : Abs(get_col(d) - get_col(TheSource)) <= 1

\* a pawn on an edge file whose wrapped-around square holds a piece, or is
\* the en-passant target
C6_Witness ==
  /\ PawnCall
  /\ \E d \in {left, right} \ OpenSides :
       LET sq == TheSource + Forward + d
       IN  (sq \in Occupied \/ sq = en_passant) /\ sq \notin result

\* ------------------------------------------- offset table specification
\* one call of a table-driven generator for one piece, on every small
\* snapshot
InitJump == Fresh /\ BoardUpTo(MaxOcc)

PawnMasks == {{}} \cup {{s} : s \in PawnSquares}

JumpKnight ==
  gen = "none" /\ UNCHANGED memo /\ \E bb \in SingleMasks : CallKnight(bb)
JumpKing ==
  gen = "none" /\ UNCHANGED memo /\ \E bb \in SingleMasks : CallKing(bb)
JumpPawnAttacks ==
  /\ gen = "none" /\ UNCHANGED memo
  /\ \E bb \in PawnMasks : \E cc \in Colors : CallPawnAttacks(bb, cc)

NextJump == JumpKnight \/ JumpKing \/ JumpPawnAttacks

SpecJump == InitJump /\ [][NextJump]_vars

\* the 8 knight jumps and the 8 king steps as (row, column) deltas
KnightJumps ==
  {<<dr, dc>> \in (-2..2) \X (-2..2) : Abs(dr) + Abs(dc) = 3 /\ dr # 0 /\ dc # 0}
KingSteps == {<<dr, dc>> \in (-1..1) \X (-1..1) : <<dr, dc>> # <<0, 0>>}
\* the squares (r + dr, c + dc) that are on the board
Targets(s, deltas) ==
  {8 * (get_row(s) + d[1]) + (get_col(s) + d[2]) :
     d \in {e \in deltas : /\ get_row(s) + e[1] \in 0..7
                           /\ get_col(s) + e[2] \in 0..7}}
Corners == {0, 7, 56, 63}

\* C5: knight_moves / king_moves of one piece on s is exactly the set of
\* on-board squares (r + dr, c + dc) over the 8 jumps / steps, whatever the
\* occupancy: 2 squares for a knight on square 0, 3 for a king on a corner,
\* 8 for either on a central square.
C5_JumpContract ==
  (gen \in {"knight", "king"} /\ Cardinality(b) = 1) =>
    LET s == TheSource
        deltas == IF gen = "knight" THEN KnightJumps ELSE KingSteps
    IN  /\ Cardinality(deltas) = 8
        /\ result = Targets(s, deltas)
        /\ \A d \in result :
             /\ Abs(DRow(s, d)) <= 2 /\ Abs(DCol(s, d)) <= 2
        /\ (gen = "knight" /\ s = 0) => Cardinality(result) = 2
        /\ (gen = "king" /\ s \in Corners) => Cardinality(result) = 3
        /\ (get_row(s) \in 2..5 /\ get_col(s) \in 2..5) =>
             Cardinality(result) = 8

\* a knight or king on an edge file, on a board that holds a piece: some of
\* its 8 destinations are off the board
C5_Witness ==
  /\ gen \in {"knight", "king"} /\ Cardinality(b) = 1
  /\ get_col(TheSource) \in {0, 7} /\ Occupied # {}
  /\ result # {} /\ Cardinality(result) < 8

\* the on-board squares one rank along delta and one file beside s
Diagonals(s, delta) ==
  {s + delta + d : d \in {e \in {left, right} : get_col(s) + e \in 0..7}}

\* C4: pawn_attacks is exactly the set of on-board squares one rank forward
\* (the forward of pawn_moves: row - 1 for white, row + 1 for black) and one
\* file to the left or right of a source pawn.
C4_PawnAttacksForward ==
  gen = "pawn_attacks" =>
    result = UNION {Diagonals(s, get_pawn_direction(c)) : s \in b}

\* what the code returns instead: the squares one rank backward
C4_PawnAttacksBackward ==
  gen = "pawn_attacks" =>
    result = UNION {Diagonals(s, -get_pawn_direction(c)) : s \in b}

\* ---------------------------------------------------- union specification
\* source squares of the masks with several pieces: both pawn start rows and
\* a middle row, the edge files and the two centre files
SourcePool ==
  {s \in Squares : get_row(s) \in {1, 3, 6} /\ get_col(s) \in {0, 3, 4, 7}}

RECURSIVE PoolSetsUpTo(_)
PoolSetsUpTo(k) ==
  IF k = 0 THEN {{}}
  ELSE LET P == PoolSetsUpTo(k - 1)
       IN  P \cup {p \cup {x} : p \in P, x \in SourcePool}

\* the squares that hold the pieces of the snapshots: in front of the white
\* pawns of the centre files, on lines between pool squares
BlockPool == {43, 44, 35}
PoolTargets == {no_square, 44}
PoolMasks == PoolSetsUpTo(MaxSrc)

InitUnion ==
  /\ Fresh
  /\ \E occ \in SUBSET BlockPool : \E w \in {occ, {}} :
       white = w /\ black = occ \ w
  /\ en_passant \in PoolTargets

UnionPawnMoves ==
  /\ gen = "none" /\ UNCHANGED memo
  /\ \E bb \in PoolMasks : \E cc \in Colors : CallPawnMoves(bb, cc)
UnionPawnAttacks ==
  /\ gen = "none" /\ UNCHANGED memo
  /\ \E bb \in PoolMasks : \E cc \in Colors : CallPawnAttacks(bb, cc)
UnionKnight ==
  gen = "none" /\ UNCHANGED memo /\ \E bb \in PoolMasks : CallKnight(bb)
UnionKing ==
  gen = "none" /\ UNCHANGED memo /\ \E bb \in PoolMasks : CallKing(bb)
UnionBishop ==
  gen = "none" /\ UNCHANGED memo /\ \E bb \in PoolMasks : CallBishop(bb)
UnionRook ==
  gen = "none" /\ UNCHANGED memo /\ \E bb \in PoolMasks : CallRook(bb)
UnionQueen ==
  gen = "none" /\ UNCHANGED memo /\ \E bb \in PoolMasks : CallQueen(bb)

NextUnion ==
  \/ UnionPawnMoves \/ UnionPawnAttacks \/ UnionKnight \/ UnionKing
  \/ UnionBishop \/ UnionRook \/ UnionQueen

SpecUnion == InitUnion /\ [][NextUnion]_vars

\* the generator g applied to (bb, cc) in the current state
Generate(g, bb, cc) ==
  CASE g = "pawn_moves" -> get_pawn_moves(bb, cc)
    [] g = "pawn_attacks" -> get_pawn_attacks(bb, cc)
    [] g = "knight" -> get_knight_moves(bb)
    [] g = "king" -> get_king_moves(bb)
    [] g = "bishop" -> get_bishop_moves(bb)
    [] g = "rook" -> get_rook_moves(bb)
    [] g = "queen" -> get_queen_moves(bb)

\* C8: with board, en-passant target and color fixed, every generator G has
\* G(A | B) = G(A) | G(B); the result for a mask is the union of the results
\* for its bits taken alone, and G(empty) is empty.
C8_GeneratorsDistribute ==
  gen # "none" =>
    /\ result = UNION {Generate(gen, {s}, c) : s \in b}
    /\ \A A \in SUBSET b :
         result = Generate(gen, A, c) \cup Generate(gen, b \ A, c)
    /\ b = {} => result = {}

\* a call for two pieces whose results differ and whose union is returned
C8_Witness ==
  /\ gen # "none" /\ Cardinality(b) >= 2
  /\ \E s \in b : \E u \in b :
       /\ Generate(gen, {s}, c) \ Generate(gen, {u}, c) # {}
       /\ Generate(gen, {u}, c) \ Generate(gen, {s}, c) # {}
       /\ result = Generate(gen, {s}, c) \cup Generate(gen, {u}, c)

\* ----------------------------------------------------- walk specification
\* get_bishop_moves / get_rook_moves / get_queen_moves step by step: one
\* step per loop test or loop body
WalkSources == {0, 7, 27, 60}
dirs_of(kind) == IF kind = "bishop" THEN bishop_dirs ELSE rook_dirs

InitWalk == Fresh /\ BoardUpTo(MaxOcc)

\* the call starts: moves = 0, the first (for queen: the bishop) pass begins.
\* One piece on any snapshot, or all 64 source bits on the empty board.
WalkStart ==
  /\ pc = "idle" /\ gen = "none"
  /\ \E kind \in {"bishop", "rook", "queen"} :
     \E bb \in {{s} : s \in WalkSources} \cup {Squares} :
       /\ bb = Squares => white \cup black = {}
       /\ gen' = kind /\ b' = bb /\ c' = white_c /\ result' = {}
       /\ wk' = IF kind = "rook" THEN "rook" ELSE "bishop"
       /\ ws' = bb /\ pc' = "scan" /\ marks' = 0
  /\ UNCHANGED <<board, tables, memo, wd, wi, wj, steps>>

\* for (square s ...): the next set bit, if any
WalkScan ==
  /\ pc = "scan" /\ ws # {}
  /\ pc' = "dir" /\ wd' = 1
  /\ UNCHANGED <<board, tables, memo, gen, b, c, result, ws, wk, wi, wj,
                 steps, marks>>

\* for (auto [dr, dc] : dirs): the next direction, or the next source
WalkDir ==
  /\ pc = "dir"
  /\ LET s == lowest_bit(ws)
         dirs == dirs_of(wk)
     IN  IF wd <= Len(dirs)
         THEN /\ wi' = get_row(s) + dirs[wd][1]
              /\ wj' = get_col(s) + dirs[wd][2]
              /\ steps' = 0 /\ pc' = "ray"
              /\ UNCHANGED <<ws, wd>>
         ELSE /\ ws' = ws \ {s} /\ pc' = "scan"
              /\ UNCHANGED <<wd, wi, wj, steps>>
  /\ UNCHANGED <<board, tables, memo, gen, b, c, result, wk, marks>>

\* variant: the loop body does not advance i and j
WalkRay_no_advance ==
  /\ pc = "ray"
  /\ LET sq == 8 * wi + wj
     IN  IF is_valid_dimension(wi) /\ is_valid_dimension(wj)
         THEN /\ result' = set_bit(result, sq)
              /\ steps' = steps + 1 /\ marks' = marks + 1
              /\ IF test_bit(black \cup white, sq)
                 THEN wd' = wd + 1 /\ pc' = "dir"
                 ELSE UNCHANGED <<wd, pc>>
         ELSE /\ wd' = wd + 1 /\ pc' = "dir"
              /\ UNCHANGED <<result, steps, marks>>
  /\ UNCHANGED <<board, tables, memo, gen, b, c, ws, wk, wi, wj>>

\* while (valid(i) && valid(j)) { set_bit; if (occupied) break; i, j += }
WalkRay ==
  /\ pc = "ray"
  /\ LET dirs == dirs_of(wk)
         sq == 8 * wi + wj
     IN  IF is_valid_dimension(wi) /\ is_valid_dimension(wj)
         THEN /\ result' = set_bit(result, sq)
              /\ steps' = steps + 1 /\ marks' = marks + 1
              /\ IF test_bit(black \cup white, sq)
                 THEN /\ wd' = wd + 1 /\ pc' = "dir"
                      /\ UNCHANGED <<wi, wj>>
                 ELSE /\ wi' = wi + dirs[wd][1] /\ wj' = wj + dirs[wd][2]
                      /\ UNCHANGED <<wd, pc>>
         ELSE /\ wd' = wd + 1 /\ pc' = "dir"
              /\ UNCHANGED <<result, wi, wj, steps, marks>>
  /\ UNCHANGED <<board, tables, memo, gen, b, c, ws, wk>>

\* get_queen_moves: get_rook_moves(b) after get_bishop_moves(b)
WalkSecondPass ==
  /\ pc = "scan" /\ ws = {} /\ gen = "queen" /\ wk = "bishop"
  /\ wk' = "rook" /\ ws' = b /\ marks' = 0
  /\ UNCHANGED <<board, tables, memo, gen, b, c, result, pc, wd, wi, wj,
                 steps>>

\* return moves
WalkReturn ==
  /\ pc = "scan" /\ ws = {} /\ (gen = "queen" => wk = "rook")
  /\ pc' = "done"
  /\ UNCHANGED <<board, tables, memo, gen, b, c, result, ws, wk, wd, wi, wj,
                 steps, marks>>

NextWalk ==
  WalkStart \/ WalkScan \/ WalkDir \/ WalkRay \/ WalkSecondPass \/ WalkReturn

SpecWalk == InitWalk /\ [][NextWalk]_vars

\* a measure of the work a running call has left: passes, then source
\* squares, then directions, then squares of the ray
Rank ==
  LET pass == IF gen = "queen" /\ wk = "bishop" THEN 64 * 42 + 2 ELSE 0
      n == Cardinality(ws)
      here == CASE pc = "scan" -> n * 42
                [] pc = "dir" -> (n - 1) * 42 + (5 - wd) * 10 + 1
                [] pc = "ray" -> (n - 1) * 42 + (4 - wd) * 10 + (10 - steps)
                [] OTHER -> -1
  IN  pass + here + 1

Running == pc \in {"scan", "dir", "ray"}

\* C10: every call of a sliding generator terminates: a running call can
\* always take its next step, every step lowers a non-negative measure, a ray
\* marks at most 7 squares and a pass at most 64 x 4 x 7, and the call
\* returns what the generator computes for its source squares.
C10_SlidingTerminates ==
  /\ [](Running => (ENABLED NextWalk /\ Rank > 0))
  /\ [][Running => Rank' < Rank]_vars
  /\ [](steps <= 7 /\ marks <= 64 * 4 * 7)
  /\ [](pc = "done" => result = UNION {Generate(gen, {s}, c) : s \in b})

\* a returned call whose last pass marked squares on a ray of full length 7
\* and, on another ray, stopped at a piece
C10_Witness ==
  /\ pc = "done" /\ marks > 7
  /\ \E s \in b : \E k \in Occupied \cap result :
       OnLine(wk, s, k) /\ Cardinality(RayThrough(wk, s, k)) > Dist(s, k)
  /\ \E s \in b : \E d \in result : OnLine(wk, s, d) /\ Dist(s, d) = 7

\* ------------------------------------------------- sequence specification
\* any sequence of generator calls on an unchanged snapshot; one of the
\* calls, any, is remembered with its result, for comparison with later ones
SeqMasks == {{51}, {27, 36}}

InitSeq ==
  /\ Fresh
  /\ \E occ \in {{}, {44}} : \E w \in {occ, {}} :
       white = w /\ black = occ \ w
  /\ en_passant \in PoolTargets

\* the remembered call: its arguments and result, whether it constructed an
\* offset table (first), and whether a later call has repeated it (again)
Remember ==
  \/ memo' = IF memo.gen = gen' /\ memo.b = b' /\ memo.c = c'
             THEN [memo EXCEPT !.again = TRUE]
             ELSE memo
  \/ /\ memo = no_call
     /\ memo' = [gen |-> gen', b |-> b', c |-> c', result |-> result',
                 first |-> built' # built, again |-> FALSE]

SeqPawnMoves ==
  (\E bb \in SeqMasks : \E cc \in Colors : CallPawnMoves(bb, cc)) /\ Remember
SeqPawnAttacks ==
  (\E bb \in SeqMasks : \E cc \in Colors : CallPawnAttacks(bb, cc)) /\ Remember
SeqKnight == (\E bb \in SeqMasks : CallKnight(bb)) /\ Remember
SeqKing == (\E bb \in SeqMasks : CallKing(bb)) /\ Remember
SeqBishop == (\E bb \in SeqMasks : CallBishop(bb)) /\ Remember
SeqRook == (\E bb \in SeqMasks : CallRook(bb)) /\ Remember
SeqQueen == (\E bb \in SeqMasks : CallQueen(bb)) /\ Remember

NextSeq ==
  \/ SeqPawnMoves \/ SeqPawnAttacks \/ SeqKnight \/ SeqKing
  \/ SeqBishop \/ SeqRook \/ SeqQueen

SpecSeq == InitSeq /\ [][NextSeq]_vars

table_of(name) ==
  CASE name = "pawn_attacks" -> pawn_attacks
    [] name = "knight_moves" -> knight_moves
    [] name = "king_moves" -> king_moves

\* the last call repeats the remembered one
SameCall == memo.gen = gen /\ memo.b = b /\ memo.c = c

\* C9: on an unchanged snapshot two calls of the same generator with the
\* same arguments return the same bits, the call that builds an offset table
\* included; each offset table is built at most once, and once built its 64
\* entries never change.
C9_CallsRepeatable ==
  /\ [](SameCall => memo.result = result)
  /\ [](\A n \in TableNames :
          /\ builds[n] <= 1
          /\ n \in built <=> builds[n] = 1
          /\ n \notin built => table_of(n) = zero_table)
  /\ [][\A n \in TableNames :
          n \in built => (n \in built' /\ table_of(n)' = table_of(n))]_vars

\* a table-driven call that repeats the remembered call that built the
\* table, once every table is built
C9_Witness ==
  /\ SameCall /\ memo.first /\ memo.again
  /\ built = TableNames
  /\ result # {} /\ memo.result = result

====
